---- MODULE Spec2Model ----
(***************************************************************************)
(* The cross-thread log of gpuvis_utils.cpp: g_log (read and written by    *)
(* the main thread only), g_thread_log (staging area of the other          *)
(* threads), g_mutex, and the routines logf_init, logf_shutdown, logf_get, *)
(* logf, logf_update and logf_clear.  Every statement that touches shared  *)
(* state is one step of the thread that executes it.                       *)
(***************************************************************************)
EXTENDS Integers, Sequences, FiniteSets, TLC

\* ------------------------------------------------------------- bounds
NumWorkers == 2
MaxCalls == 3

\* ------------------------------------------------------------- threads
MainThread == 0
Workers == 1..NumWorkers
Threads == {MainThread} \cup Workers
NoThread == 0 - 1

\* A log entry is the string one successful vasprintf produced: it is named
\* by the thread that formatted it and the number of that logf call.
Entries == Threads \X (1..MaxCalls)
NULL == <<>>

VARIABLES
    g_main_tid,      \* thread id recorded by logf_init
    g_log,           \* std::vector< char * > g_log
    g_thread_log,    \* std::vector< char * > g_thread_log
    g_mutex,         \* TRUE: the mutex of logf_init exists; FALSE: NULL
    mutex_owner,     \* the thread inside SDL_LockMutex .. SDL_UnlockMutex
    pc,              \* per thread: the statement it is at
    buf,             \* per thread: logf's local  char *buf
    calls,           \* per thread: number of logf calls made
    it,              \* the range-for position of logf_update / logf_clear
    ret,             \* who called logf_update: "update" (the caller) or "clear"
    got,             \* what logf_get's reference showed at the last Read
    freed,           \* how many times free() was called on each entry
    \* history variables (observe the run, never read by the code)
    returned,        \* entries whose logf call has returned
    snap,            \* returned, as of the invocation of the running Drain or Clear
    pre_log,         \* g_log when the running Drain took the lock
    batch,           \* g_thread_log when the running Drain took the lock
    quiet,           \* Drains returned since the last step of any logf call (capped at 2)
    drain_len        \* Len(g_log) when the last Drain returned (0 after a Clear)

vars == <<g_main_tid, g_log, g_thread_log, g_mutex, mutex_owner, pc, buf, calls,
          it, ret, got, freed, returned, snap, pre_log, batch, quiet, drain_len>>

\* ------------------------------------------------------------- helpers
Range(s) == {s[i] : i \in 1..Len(s)}
Count(e, s) == Cardinality({i \in 1..Len(s) : s[i] = e})
RECURSIVE SumOver(_, _)
SumOver(f, S) == IF S = {} THEN 0 ELSE LET x == CHOOSE y \in S : TRUE
                                       IN f[x] + SumOver(f, S \ {x})
IsPrefix(s, u) == Len(s) <= Len(u) /\ SubSeq(u, 1, Len(s)) = s
Min2(a, b) == IF a < b THEN a ELSE b

\* ------------------------------------------------------------- logf_init
Init ==
    /\ g_main_tid = MainThread
    /\ g_log = <<>>
    /\ g_thread_log = <<>>
    /\ g_mutex = TRUE
    /\ mutex_owner = NoThread
    /\ pc = [t \in Threads |-> "idle"]
    /\ buf = [t \in Threads |-> NULL]
    /\ calls = [t \in Threads |-> 0]
    /\ it = 1
    /\ ret = "update"
    /\ got = <<>>
    /\ freed = [e \in Entries |-> 0]
    /\ returned = {}
    /\ snap = {}
    /\ pre_log = <<>>
    /\ batch = <<>>
    /\ quiet = 0
    /\ drain_len = 0

\* ------------------------------------------------------------- logf
\* logf, lines 71-76: the call and its vasprintf.  buf stays NULL when
\* vasprintf cannot produce the string.  At most MaxCalls calls are made.
LogfFormat(t) ==
    /\ g_mutex
    /\ pc[t] = "idle"
    /\ SumOver(calls, Threads) < MaxCalls
    /\ calls' = [calls EXCEPT ![t] = @ + 1]
    /\ \E b \in {NULL, <<t, calls[t] + 1>>} : buf' = [buf EXCEPT ![t] = b]
    /\ pc' = [pc EXCEPT ![t] = "logf_buf"]
    /\ quiet' = 0
    /\ UNCHANGED <<g_main_tid, g_log, g_thread_log, g_mutex, mutex_owner, it,
                   ret, got, freed, returned, snap, pre_log, batch, drain_len>>

\* LogfDrop without the test of line 78: the NULL buf is pushed.
LogfDrop_PushNull(t) ==
    /\ pc[t] = "logf_buf"
    /\ buf[t] = NULL
    /\ g_log' = (IF t = g_main_tid THEN Append(g_log, buf[t]) ELSE g_log)
    /\ g_thread_log' = (IF t = g_main_tid THEN g_thread_log ELSE Append(g_thread_log, buf[t]))
    /\ pc' = [pc EXCEPT ![t] = "idle"]
    /\ quiet' = 0
    /\ UNCHANGED <<g_main_tid, g_mutex, mutex_owner, buf, calls, it, ret, got,
                   freed, returned, snap, pre_log, batch, drain_len>>

\* logf, lines 78 and 90-91: buf is NULL, the call returns.
LogfDrop(t) ==
    /\ pc[t] = "logf_buf"
    /\ buf[t] = NULL
    /\ pc' = [pc EXCEPT ![t] = "idle"]
    /\ quiet' = 0
    /\ UNCHANGED <<g_main_tid, g_log, g_thread_log, g_mutex, mutex_owner, buf,
                   calls, it, ret, got, freed, returned, snap, pre_log, batch,
                   drain_len>>

\* LogfPushMain inserting at the front of g_log instead of push_back.
LogfPushMain_Front(t) ==
    /\ pc[t] = "logf_buf"
    /\ buf[t] # NULL
    /\ t = g_main_tid
    /\ g_log' = <<buf[t]>> \o g_log
    /\ returned' = returned \cup {buf[t]}
    /\ buf' = [buf EXCEPT ![t] = NULL]
    /\ pc' = [pc EXCEPT ![t] = "idle"]
    /\ quiet' = 0
    /\ UNCHANGED <<g_main_tid, g_thread_log, g_mutex, mutex_owner, calls, it,
                   ret, got, freed, snap, pre_log, batch, drain_len>>

\* logf, lines 80-83: the main thread pushes to g_log and returns.
LogfPushMain(t) ==
    /\ pc[t] = "logf_buf"
    /\ buf[t] # NULL
    /\ t = g_main_tid
    /\ g_log' = Append(g_log, buf[t])
    /\ returned' = returned \cup {buf[t]}
    /\ buf' = [buf EXCEPT ![t] = NULL]
    /\ pc' = [pc EXCEPT ![t] = "idle"]
    /\ quiet' = 0
    /\ UNCHANGED <<g_main_tid, g_thread_log, g_mutex, mutex_owner, calls, it,
                   ret, got, freed, snap, pre_log, batch, drain_len>>

\* logf, line 86: another thread takes the mutex.
LogfLock(t) ==
    /\ pc[t] = "logf_buf"
    /\ buf[t] # NULL
    /\ t # g_main_tid
    /\ mutex_owner = NoThread
    /\ mutex_owner' = t
    /\ pc' = [pc EXCEPT ![t] = "logf_push"]
    /\ quiet' = 0
    /\ UNCHANGED <<g_main_tid, g_log, g_thread_log, g_mutex, buf, calls, it,
                   ret, got, freed, returned, snap, pre_log, batch, drain_len>>

\* logf, line 87: g_thread_log.push_back( buf ).
LogfPush(t) ==
    /\ pc[t] = "logf_push"
    /\ g_thread_log' = Append(g_thread_log, buf[t])
    /\ pc' = [pc EXCEPT ![t] = "logf_unlock"]
    /\ quiet' = 0
    /\ UNCHANGED <<g_main_tid, g_log, g_mutex, mutex_owner, buf, calls, it, ret,
                   got, freed, returned, snap, pre_log, batch, drain_len>>

\* LogfUnlock without the SDL_UnlockMutex of line 88.
LogfUnlock_NoRelease(t) ==
    /\ pc[t] = "logf_unlock"
    /\ returned' = returned \cup {buf[t]}
    /\ buf' = [buf EXCEPT ![t] = NULL]
    /\ pc' = [pc EXCEPT ![t] = "idle"]
    /\ quiet' = 0
    /\ UNCHANGED <<g_main_tid, g_log, g_thread_log, g_mutex, mutex_owner, calls,
                   it, ret, got, freed, snap, pre_log, batch, drain_len>>

\* logf, lines 88-91: SDL_UnlockMutex and the return.
LogfUnlock(t) ==
    /\ pc[t] = "logf_unlock"
    /\ mutex_owner' = (IF mutex_owner = t THEN NoThread ELSE mutex_owner)
    /\ returned' = returned \cup {buf[t]}
    /\ buf' = [buf EXCEPT ![t] = NULL]
    /\ pc' = [pc EXCEPT ![t] = "idle"]
    /\ quiet' = 0
    /\ UNCHANGED <<g_main_tid, g_log, g_thread_log, g_mutex, calls, it, ret,
                   got, freed, snap, pre_log, batch, drain_len>>

\* ------------------------------------------------------------- logf_update
\* SizeRead testing size() > 1 instead of size().
SizeRead_OffByOne ==
    IF \E w \in Threads : pc[w] = "logf_push"
    THEN {Len(g_thread_log) > 1, Len(g_thread_log) > 0}
    ELSE {Len(g_thread_log) > 1}

\* Line 95 reads g_thread_log.size() without the mutex.  The read races with
\* the push_back of a thread that is at line 87: it then yields the size
\* before the push or a size that already counts (or is torn by) the push.
\* A read that no push races with yields the size.
SizeRead ==
    IF \E w \in Threads : pc[w] = "logf_push"
    THEN {Len(g_thread_log) > 0, TRUE}
    ELSE {Len(g_thread_log) > 0}

\* The staged entries whose logf call has returned.
StagedReturned == {e \in Range(g_thread_log) : e \in returned}

\* What the return of logf_update leaves: quiet counts it, drain_len
\* remembers the length of g_log.
UpdateReturns(who) ==
    /\ pc' = [pc EXCEPT ![g_main_tid] = IF who = "clear" THEN "clr_free" ELSE "idle"]
    /\ it' = 1
    /\ quiet' = Min2(quiet + 1, 2)
    /\ drain_len' = Len(g_log)
    /\ pre_log' = <<>>
    /\ batch' = <<>>

\* logf_update, line 95, entered from `who`: the unlocked test of
\* g_thread_log.size(); with nothing staged the call returns (line 105).
UpdateTest(t, who) ==
    /\ g_mutex
    /\ t = g_main_tid
    /\ pc[t] = "idle"
    /\ ret' = who
    /\ \E seen \in SizeRead :
          IF seen
          THEN /\ pc' = [pc EXCEPT ![t] = "upd_lock"]
               /\ snap' = returned
               /\ UNCHANGED <<it, quiet, drain_len, pre_log, batch>>
          ELSE /\ UpdateReturns(who)
               /\ snap' = (IF who = "clear" THEN returned ELSE {})
    /\ UNCHANGED <<g_main_tid, g_log, g_thread_log, g_mutex, mutex_owner, buf,
                   calls, got, freed, returned>>

\* Drain: the main thread calls logf_update.
LogfUpdate(t) == UpdateTest(t, "update")

\* logf_update, line 97: SDL_LockMutex.
UpdLock(t) ==
    /\ pc[t] = "upd_lock"
    /\ mutex_owner = NoThread
    /\ mutex_owner' = t
    /\ pc' = [pc EXCEPT ![t] = "upd_copy"]
    /\ it' = 1
    /\ pre_log' = g_log
    /\ batch' = g_thread_log
    /\ UNCHANGED <<g_main_tid, g_log, g_thread_log, g_mutex, buf, calls, ret,
                   got, freed, returned, snap, quiet, drain_len>>

\* UpdCopy inserting at the front of g_log instead of push_back.
UpdCopy_Front(t) ==
    /\ pc[t] = "upd_copy"
    /\ it <= Len(g_thread_log)
    /\ g_log' = <<g_thread_log[it]>> \o g_log
    /\ it' = it + 1
    /\ UNCHANGED <<g_main_tid, g_thread_log, g_mutex, mutex_owner, pc, buf,
                   calls, ret, got, freed, returned, snap, pre_log, batch,
                   quiet, drain_len>>

\* logf_update, lines 99-100: one round of the range-for.
UpdCopy(t) ==
    /\ pc[t] = "upd_copy"
    /\ it <= Len(g_thread_log)
    /\ g_log' = Append(g_log, g_thread_log[it])
    /\ it' = it + 1
    /\ UNCHANGED <<g_main_tid, g_thread_log, g_mutex, mutex_owner, pc, buf,
                   calls, ret, got, freed, returned, snap, pre_log, batch,
                   quiet, drain_len>>

\* UpdClear without the g_thread_log.clear() of line 101.
UpdClear_NoClear(t) ==
    /\ pc[t] = "upd_copy"
    /\ it > Len(g_thread_log)
    /\ pc' = [pc EXCEPT ![t] = "upd_unlock"]
    /\ UNCHANGED <<g_main_tid, g_log, g_thread_log, g_mutex, mutex_owner, buf,
                   calls, it, ret, got, freed, returned, snap, pre_log, batch,
                   quiet, drain_len>>

\* logf_update, line 101: the range-for is over, g_thread_log.clear().
UpdClear(t) ==
    /\ pc[t] = "upd_copy"
    /\ it > Len(g_thread_log)
    /\ g_thread_log' = <<>>
    /\ pc' = [pc EXCEPT ![t] = "upd_unlock"]
    /\ UNCHANGED <<g_main_tid, g_log, g_mutex, mutex_owner, buf, calls, it, ret,
                   got, freed, returned, snap, pre_log, batch, quiet,
                   drain_len>>

\* logf_update, lines 103-105: SDL_UnlockMutex and the return.
UpdUnlock(t) ==
    /\ pc[t] = "upd_unlock"
    /\ mutex_owner' = (IF mutex_owner = t THEN NoThread ELSE mutex_owner)
    /\ UpdateReturns(ret)
    /\ snap' = (IF ret = "clear" THEN snap ELSE {})
    /\ UNCHANGED <<g_main_tid, g_log, g_thread_log, g_mutex, buf, calls, ret,
                   got, freed, returned>>

\* ------------------------------------------------------------- logf_clear
\* LogfClear without the logf_update() of line 109.
LogfClear_NoDrain(t) ==
    /\ g_mutex
    /\ t = g_main_tid
    /\ pc[t] = "idle"
    /\ ret' = "clear"
    /\ pc' = [pc EXCEPT ![t] = "clr_free"]
    /\ it' = 1
    /\ snap' = returned
    /\ UNCHANGED <<g_main_tid, g_log, g_thread_log, g_mutex, mutex_owner, buf,
                   calls, got, freed, returned, pre_log, batch, quiet,
                   drain_len>>

\* logf_clear, line 109: the call of logf_update.
LogfClear(t) == UpdateTest(t, "clear")

\* logf_clear, lines 111-112: one round of the range-for, free( str ).
ClrFree(t) ==
    /\ pc[t] = "clr_free"
    /\ it <= Len(g_log)
    /\ freed' = [freed EXCEPT ![g_log[it]] = @ + 1]
    /\ it' = it + 1
    /\ UNCHANGED <<g_main_tid, g_log, g_thread_log, g_mutex, mutex_owner, pc,
                   buf, calls, ret, got, returned, snap, pre_log, batch, quiet,
                   drain_len>>

\* logf_clear, lines 113-114: g_log.clear() and the return.
ClrClear(t) ==
    /\ pc[t] = "clr_free"
    /\ it > Len(g_log)
    /\ g_log' = <<>>
    /\ it' = 1
    /\ pc' = [pc EXCEPT ![t] = "idle"]
    /\ snap' = {}
    /\ drain_len' = 0
    /\ ret' = "update"
    /\ UNCHANGED <<g_main_tid, g_thread_log, g_mutex, mutex_owner, buf, calls,
                   got, freed, returned, pre_log, batch, quiet>>

\* ------------------------------------------------------------- logf_get
\* LogfGet showing the staged entries too.
LogfGet_WithStaged(t) ==
    /\ g_mutex
    /\ t = g_main_tid
    /\ pc[t] = "idle"
    /\ got' = g_log \o g_thread_log
    /\ pc' = [pc EXCEPT ![t] = "get_ret"]
    /\ UNCHANGED <<g_main_tid, g_log, g_thread_log, g_mutex, mutex_owner, buf,
                   calls, it, ret, freed, returned, snap, pre_log, batch, quiet,
                   drain_len>>

\* Read: logf_get returns a reference to g_log; got is what the caller sees
\* through it.
LogfGet(t) ==
    /\ g_mutex
    /\ t = g_main_tid
    /\ pc[t] = "idle"
    /\ got' = g_log
    /\ pc' = [pc EXCEPT ![t] = "get_ret"]
    /\ UNCHANGED <<g_main_tid, g_log, g_thread_log, g_mutex, mutex_owner, buf,
                   calls, it, ret, freed, returned, snap, pre_log, batch, quiet,
                   drain_len>>

\* The caller is done with the reference logf_get returned.
GetDone(t) ==
    /\ pc[t] = "get_ret"
    /\ got' = <<>>
    /\ pc' = [pc EXCEPT ![t] = "idle"]
    /\ UNCHANGED <<g_main_tid, g_log, g_thread_log, g_mutex, mutex_owner, buf,
                   calls, it, ret, freed, returned, snap, pre_log, batch, quiet,
                   drain_len>>

\* ------------------------------------------------------------- logf_shutdown
\* LogfShutdown emptying g_log as well.
LogfShutdown_Clears(t) ==
    /\ g_mutex
    /\ t = g_main_tid
    /\ \A u \in Threads : pc[u] = "idle"
    /\ g_mutex' = FALSE
    /\ g_log' = <<>>
    /\ UNCHANGED <<g_main_tid, g_thread_log, mutex_owner, pc, buf, calls, it,
                   ret, got, freed, returned, snap, pre_log, batch, quiet,
                   drain_len>>

\* Lines 60-61, called by the main thread at exit, once every other thread is
\* out of logf: the mutex is destroyed and g_mutex is NULL.  The buffers
\* stay.  No log routine is called after it.
LogfShutdown(t) ==
    /\ g_mutex
    /\ t = g_main_tid
    /\ \A u \in Threads : pc[u] = "idle"
    /\ g_mutex' = FALSE
    /\ UNCHANGED <<g_main_tid, g_log, g_thread_log, mutex_owner, pc, buf, calls,
                   it, ret, got, freed, returned, snap, pre_log, batch, quiet,
                   drain_len>>

\* ------------------------------------------------------------- the program
Next ==
    \E t \in Threads :
        \/ LogfFormat(t)
        \/ LogfDrop(t)
        \/ LogfPushMain(t)
        \/ LogfLock(t)
        \/ LogfPush(t)
        \/ LogfUnlock(t)
        \/ LogfUpdate(t)
        \/ UpdLock(t)
        \/ UpdCopy(t)
        \/ UpdClear(t)
        \/ UpdUnlock(t)
        \/ LogfClear(t)
        \/ ClrFree(t)
        \/ ClrClear(t)
        \/ LogfGet(t)
        \/ GetDone(t)
        \/ LogfShutdown(t)

Spec == Init /\ [][Next]_vars

\* Scheduling: a thread that is inside a call and can take its next statement
\* takes it (the OS runs every runnable thread; a thread waiting in
\* SDL_LockMutex proceeds once the mutex stays free: weak fairness, which is
\* the least a mutex gives).  Starting a call is up to the caller and is under
\* no fairness.
Continue(t) ==
    \/ LogfDrop(t)
    \/ LogfPushMain(t)
    \/ LogfLock(t)
    \/ LogfPush(t)
    \/ LogfUnlock(t)
    \/ UpdLock(t)
    \/ UpdCopy(t)
    \/ UpdClear(t)
    \/ UpdUnlock(t)
    \/ ClrFree(t)
    \/ ClrClear(t)
    \/ GetDone(t)

LiveSpec ==
    /\ Init
    /\ [][Next]_vars
    /\ \A t \in Threads : WF_vars(Continue(t))

\* LiveSpec with a main thread that keeps calling Drain: whenever it is again
\* and again in a position to call logf_update, it does.
DrainSpec ==
    /\ LiveSpec
    /\ SF_vars(LogfUpdate(g_main_tid))

\* ============================================================= properties
IsMainEntry(e) == e[1] = g_main_tid
Live(e) == e \in returned /\ freed[e] = 0

\* ------------------------------------------------------------- C1
\* C1: a Drain that finds staged entries appends to g_log exactly the entries
\* that are in g_thread_log during its locked section (batch: nothing is
\* staged while the lock is held), in their staged order, as one block after
\* everything g_log held when the lock was taken (pre_log), and leaves
\* g_thread_log empty.
C1_DrainAppendsBatch ==
    /\ pc[g_main_tid] = "upd_copy" =>
          /\ mutex_owner = g_main_tid
          /\ batch # <<>>
          /\ g_thread_log = batch
          /\ g_log = pre_log \o SubSeq(batch, 1, it - 1)
    /\ pc[g_main_tid] = "upd_unlock" =>
          /\ mutex_owner = g_main_tid
          /\ batch # <<>>
          /\ g_thread_log = <<>>
          /\ g_log = pre_log \o batch

\* The scenario of C1: main appends A1, a worker stages B1, Drain, main
\* appends A2, and Read shows [A1, B1, A2].
C1_Witness ==
    /\ pc[g_main_tid] = "get_ret"
    /\ got = << <<g_main_tid, 1>>, <<1, 1>>, <<g_main_tid, 2>> >>

\* ------------------------------------------------------------- C2
MainInOrder(s) ==
    \A i, j \in 1..Len(s) :
        (i < j /\ IsMainEntry(s[i]) /\ IsMainEntry(s[j])) => s[i][2] < s[j][2]

\* C2: the entries of the main thread's logf calls are in g_log, and in what
\* logf_get shows, in call order: of two of them the earlier call's entry is
\* at the lower index, and each is there from the return of its call until a
\* Clear frees it.
C2_MainThreadOrder ==
    /\ MainInOrder(g_log)
    /\ MainInOrder(got)
    /\ \A e \in Entries : (IsMainEntry(e) /\ Live(e)) => Count(e, g_log) = 1

\* Two main-thread entries with a drained entry of another thread between them.
C2_Witness ==
    \E i, j, k \in 1..Len(g_log) :
        /\ i < k /\ k < j
        /\ IsMainEntry(g_log[i]) /\ IsMainEntry(g_log[j])
        /\ ~IsMainEntry(g_log[k])
        /\ pc[g_main_tid] = "idle"

\* ------------------------------------------------------------- C3
\* C3: when Clear returns g_log is empty, and every entry whose logf call had
\* returned before the Clear was invoked (snap) has been freed and is in
\* neither buffer; an entry a finished Clear freed is never again in a buffer
\* or in what Read shows, so a later Read shows entries appended since only.
C3_ClearLeavesNoResidue ==
    /\ [][ClrClear(g_main_tid) =>
            /\ g_log' = <<>>
            /\ \A e \in snap :
                  /\ freed[e] >= 1
                  /\ e \notin Range(g_thread_log')]_vars
    /\ [](\A e \in Entries :
            freed[e] >= 1 =>
               /\ e \notin Range(g_thread_log)
               /\ e \notin Range(got)
               /\ pc[g_main_tid] # "clr_free" => e \notin Range(g_log))

\* After a Clear that discarded a main-thread entry and an entry of another
\* thread, Read shows a new entry.
C3_Witness ==
    /\ pc[g_main_tid] = "get_ret"
    /\ got # <<>>
    /\ \E e \in Entries : IsMainEntry(e) /\ freed[e] >= 1
    /\ \E e \in Entries : ~IsMainEntry(e) /\ freed[e] >= 1

\* ------------------------------------------------------------- C4
\* C4: every entry that is staged by a logf call that returned before a Drain
\* is invoked is in g_log when that Drain returns (snap: the entries of the
\* calls returned by then, each in g_log unless an earlier Clear freed it); an
\* entry leaves g_thread_log only for g_log; and with a main thread that
\* keeps calling Drain (DrainSpec) whatever is staged is moved again and
\* again (g_thread_log is empty infinitely often) unless the log is shut
\* down, so every staged entry eventually is in g_log.
C4_StagedBecomeVisible ==
    /\ [][((LogfUpdate(g_main_tid) \/ LogfClear(g_main_tid))
             /\ pc'[g_main_tid] # "upd_lock") => StagedReturned = {}]_vars
    /\ [][UpdUnlock(g_main_tid) =>
            \A e \in snap : e \in Range(g_log') \/ freed[e] >= 1]_vars
    /\ [][\A e \in Range(g_thread_log) :
            e \notin Range(g_thread_log') => e \in Range(g_log')]_vars
    /\ []<>(g_thread_log = <<>> \/ ~g_mutex)

\* A Drain holds the lock for a batch of which one entry was staged by a call
\* that returned before the Drain was invoked and one was staged after.
C4_Witness ==
    /\ pc[g_main_tid] = "upd_unlock"
    /\ \E e \in Range(batch) : e \in snap
    /\ \E e \in Range(batch) : e \notin snap

\* ------------------------------------------------------------- C5
\* C5: a logf call whose formatting produced no string returns without
\* recording an entry, without taking the lock and without changing g_log or
\* g_thread_log, whichever thread makes it; no buffer ever holds NULL.
C5_FailedFormatIsNoOp ==
    /\ [](NULL \notin Range(g_log) /\ NULL \notin Range(g_thread_log))
    /\ [][\A t \in Threads :
            (pc[t] = "logf_buf" /\ buf[t] = NULL /\ pc'[t] # pc[t]) =>
               /\ pc'[t] = "idle"
               /\ UNCHANGED <<g_log, g_thread_log, mutex_owner, returned>>]_vars

\* The main thread and another thread have each made a first logf call that
\* failed to format, and are back.
C5_Witness ==
    /\ calls[g_main_tid] >= 1 /\ pc[g_main_tid] = "idle"
    /\ <<g_main_tid, 1>> \notin returned
    /\ \E w \in Workers :
          calls[w] >= 1 /\ pc[w] = "idle" /\ <<w, 1>> \notin returned

\* ------------------------------------------------------------- C6
DrainStep(t) ==
    \/ LogfUpdate(t)
    \/ ret = "update" /\ (UpdLock(t) \/ UpdCopy(t) \/ UpdClear(t) \/ UpdUnlock(t))

\* C6: once a Drain has returned and no thread has taken a step of a logf
\* call since (quiet >= 1), g_thread_log is empty and a further Drain changes
\* neither buffer and does not take the lock.
C6_DrainIdempotent ==
    /\ [](quiet >= 1 => g_thread_log = <<>>)
    /\ [][(quiet >= 1 /\ DrainStep(g_main_tid)) =>
            UNCHANGED <<g_log, g_thread_log, mutex_owner>>]_vars

\* Two Drains have returned in a row, the first of which moved an entry.
C6_Witness ==
    /\ quiet = 2
    /\ drain_len = Len(g_log)
    /\ \E e \in Range(g_log) : ~IsMainEntry(e)

\* ------------------------------------------------------------- C7
\* C7 as stated: what Read shows is g_log, and only entries that were in
\* g_log when the last Drain returned.
C7_OnlyAsOfLastDrain ==
    pc[g_main_tid] = "get_ret" => (got = g_log /\ Len(got) <= drain_len)

\* C7, amended: Read shows g_log in insertion order, changes neither buffer
\* and takes no lock; an entry of another thread is shown only if a Drain had
\* moved it; entries the main thread appended since the last Drain are shown
\* too.
C7_ReadShowsPrimary ==
    /\ [](pc[g_main_tid] = "get_ret" =>
            /\ got = g_log
            /\ \A i \in 1..Len(got) : i > drain_len => IsMainEntry(got[i])
            /\ \A e \in Range(g_thread_log) : e \notin Range(got))
    /\ [][LogfGet(g_main_tid) =>
            UNCHANGED <<g_log, g_thread_log, mutex_owner>>]_vars

\* Read shows a drained entry and, after it, an entry the main thread
\* appended since the last Drain, while another entry is still staged.
C7_Witness ==
    /\ pc[g_main_tid] = "get_ret"
    /\ drain_len >= 1
    /\ Len(got) > drain_len
    /\ g_thread_log # <<>>

\* ------------------------------------------------------------- C8
LockHeldBriefly ==
    /\ mutex_owner # NoThread =>
          /\ pc[mutex_owner] \in {"logf_push", "logf_unlock", "upd_copy", "upd_unlock"}
          /\ mutex_owner # g_main_tid => buf[mutex_owner] # NULL
    /\ pc[g_main_tid] \in {"logf_buf", "logf_push", "logf_unlock"} =>
          mutex_owner # g_main_tid
    /\ pc[g_main_tid] \notin {"logf_push", "logf_unlock"}

\* C8: the lock is taken only after formatting, its holder is always at a
\* statement of the locked section (never waiting) and releases it, the main
\* thread's logf never takes it, and under fair scheduling every logf,
\* logf_update, logf_clear and logf_get call that starts returns (no thread
\* stays inside a call for ever: each is outside its calls again and again).
C8_NoDeadlock ==
    /\ []LockHeldBriefly
    /\ \A t \in Threads : []<>(pc[t] = "idle")

\* One thread holds the lock in logf while the main thread waits for it in
\* logf_update and a third thread waits for it in logf.
C8_Witness ==
    /\ pc[g_main_tid] = "upd_lock"
    /\ \E w, v \in Workers :
          /\ w # v
          /\ mutex_owner = w
          /\ pc[v] = "logf_buf" /\ buf[v] # NULL

\* ------------------------------------------------------------- C9
\* C9 as stated: in every state each entry of a returned logf call that no
\* Clear has freed is held exactly once, in exactly one of the two buffers.
C9_ExactlyOnceEverywhere ==
    \A e \in Entries :
        Live(e) => Count(e, g_log) + Count(e, g_thread_log) = 1

CopiedSoFar ==
    IF pc[g_main_tid] = "upd_copy"
    THEN Range(SubSeq(g_thread_log, 1, it - 1))
    ELSE {}

\* C9, amended: each entry of a returned logf call that no Clear has freed is
\* held exactly once in exactly one buffer, except inside Drain's locked
\* section, where an entry already copied to g_log stays in g_thread_log too
\* until g_thread_log.clear(); no entry is freed twice, a freed entry is in
\* no buffer once its Clear is over, and no step other than Clear's
\* g_log.clear() removes an entry from g_log or reorders it.
C9_EntriesConserved ==
    /\ [](\A e \in Entries :
            /\ Live(e) => /\ Count(e, g_log) = (IF e \in Range(g_thread_log) /\ e \notin CopiedSoFar THEN 0 ELSE 1)
                          /\ Count(e, g_thread_log) <= 1
                          /\ IsMainEntry(e) => e \notin Range(g_thread_log)
            /\ freed[e] <= 1
            /\ (freed[e] > 0 /\ pc[g_main_tid] # "clr_free") =>
                  (e \notin Range(g_log) /\ e \notin Range(g_thread_log)))
    /\ [][IsPrefix(g_log, g_log') \/ ClrClear(g_main_tid)]_vars

\* Drain is between its copy loop and g_thread_log.clear(): the entries of
\* the batch are in both buffers.
C9_Witness ==
    /\ pc[g_main_tid] = "upd_copy"
    /\ it > Len(g_thread_log)
    /\ Len(g_thread_log) >= 2
    /\ g_log # <<>>

\* ------------------------------------------------------------- C10
AccessesThreadLog(t) ==
    \/ LogfPush(t)
    \/ LogfUpdate(t)
    \/ LogfClear(t)
    \/ UpdCopy(t)
    \/ UpdClear(t)

\* C10: every read or write of g_thread_log is made under the mutex, so that no
\* thread reads or writes g_thread_log while another thread is inside the
\* locked section at the statement that modifies it (push_back, or the copy
\* loop and clear()).
C10_LockGuardsThreadLog ==
    [][\A t \in Threads :
         AccessesThreadLog(t) =>
            \A w \in Threads \ {t} : pc[w] \notin {"logf_push", "upd_copy"}]_vars
====
